---- MODULE Spec2Model ----
(***************************************************************************)
(* A model of rpa.py: the download-completion watcher (wait_download) and  *)
(* the explicit-wait wrappers around the cached Chrome session.            *)
(*                                                                         *)
(* SpecDL  : one call of wait_download against a filesystem that changes   *)
(*           between the call's reads.                                     *)
(* SpecWeb : sequences of calls of the wait_* / find / click / ... family  *)
(*           against a page that changes between the polls of a wait.      *)
(***************************************************************************)
EXTENDS Integers, Sequences, FiniteSets, TLC

\* ------------------------------------------------------------------ bounds
MaxThreshold == 3      \* largest max_equal_readings tried
MaxInterval == 2       \* largest check_interval tried
MaxSize == 2           \* file sizes are 0..MaxSize
MaxReads == 6          \* size readings taken by one call
MaxClock == 8          \* seconds slept by one call
MaxTimeout == 2        \* largest timeout argument tried
MaxWindows == 2        \* browser windows open at once
MaxSessions == 3       \* Chrome instances the model lets a run construct

\* The arguments tried: max_equal_readings is any int (0 and -1 stand for the
\* non-positive ones), check_interval a positive number of seconds.
Thresholds == (0 - 1)..MaxThreshold
Intervals == 1..MaxInterval
Sizes == 0..MaxSize

VARIABLES
    \* ---- wait_download
    pc,                 \* "waiting" | "polling" | "done" | "raised"
    max_equal_readings, \* argument
    check_interval,     \* argument
    previous_size,      \* local
    equal_readings,     \* local
    current_size,       \* local: <<>> while unbound, <<v>> once assigned
    result,             \* <<>> or <<returned value>>
    error,              \* "none" or the exception that ended the call
    exists,             \* filesystem: os.path.isfile(file_path)
    fsize,              \* filesystem: os.path.getsize(file_path)
    hist,               \* the size readings the call has taken, in order
    clock,              \* seconds the call has slept
    \* ---- the session and the wait family
    driverId,           \* get_driver's cache: 0 (empty) or the instance held
    constructed,        \* Chrome instances constructed so far
    quitted,            \* quit() was called on the instance
    context,            \* active execution context: "top" or a frame
    page,               \* the document: one truth value per condition
    frames,             \* frames the document currently offers
    windows,            \* number of window handles
    call,               \* the call in progress (stage > 0) or the last one
    outcome             \* how the last call ended

dlvars == <<pc, max_equal_readings, check_interval, previous_size,
            equal_readings, current_size, result, error, exists, fsize,
            hist, clock>>

webvars == <<driverId, constructed, quitted, context, page, frames, windows,
             call, outcome>>

vars == <<dlvars, webvars>>

\* ------------------------------------------------------------ wait_download

\* (mutation of InitialPreviousSize: a sentinel that a real size can equal)
InitialPreviousSize_Zero == 1 - 1

\* previous_size = -1
InitialPreviousSize == 0 - 1

\* (mutation of NextEqualReadings: the else branch forgets to reset)
NextEqualReadings_NoReset(cur, prev, eq) == IF cur = prev THEN eq + 1 ELSE eq

\* (mutation of NextEqualReadings: a growing file counts as a stable one)
NextEqualReadings_Growing(cur, prev, eq) == IF cur >= prev THEN eq + 1 ELSE 0

\* equal_readings after one reading (the if/else of the polling loop)
NextEqualReadings(cur, prev, eq) == IF cur = prev THEN eq + 1 ELSE 0

\* the loop condition, also the guard of the sleep
KeepPolling(eq, n) == eq < n

\* No call of the wait family was made yet and no session exists.
NoCall == [op |-> "none", timeout |-> 0, frame |-> "none", stage |-> 0,
           elapsed |-> 0, handles |-> 0, context0 |-> "top", last |-> 0]

NoOutcome == [kind |-> "none", error |-> "none", value |-> "none",
              acted |-> "none", timedOut |-> FALSE]

\* What the document can be asked: is the element at the xpath displayed, is
\* it selected, does its attribute hold the text, does the URL hold the
\* substring, is an alert open. (A displayed element is taken to be enabled.)
Conditions == {"visible", "selected", "attr", "url", "alert"}

Frames == {"f1", "f2"}

WebStart ==
    /\ driverId = 0
    /\ constructed = 0
    /\ quitted = FALSE
    /\ context = "top"
    /\ page = [c \in Conditions |-> FALSE]
    /\ frames = {}
    /\ windows = 1
    /\ call = NoCall
    /\ outcome = NoOutcome

InitDL ==
    /\ WebStart
    /\ pc = "waiting"
    /\ max_equal_readings \in Thresholds
    /\ check_interval \in Intervals
    /\ previous_size = 0
    /\ equal_readings = 0
    /\ current_size = <<>>
    /\ result = <<>>
    /\ error = "none"
    /\ exists \in BOOLEAN
    /\ fsize \in Sizes
    /\ hist = <<>>
    /\ clock = 0

\* (mutation of WaitForFile: the retry sleeps check_interval, not 1)
WaitForFile_SleepsInterval ==
    /\ pc = "waiting"
    /\ ~exists
    /\ clock < MaxClock
    /\ clock' = clock + check_interval
    /\ UNCHANGED <<pc, max_equal_readings, check_interval, previous_size,
                   equal_readings, current_size, result, error, exists,
                   fsize, hist>>
    /\ UNCHANGED webvars

\* while not os.path.isfile(file_path): logger.error(...); time.sleep(1)
WaitForFile ==
    /\ pc = "waiting"
    /\ ~exists
    /\ clock < MaxClock
    /\ clock' = clock + 1
    /\ UNCHANGED <<pc, max_equal_readings, check_interval, previous_size,
                   equal_readings, current_size, result, error, exists,
                   fsize, hist>>
    /\ UNCHANGED webvars

\* isfile() is true: leave the first loop, initialise the locals and test the
\* polling loop's condition for the first time. When it is false at once the
\* body never runs and the final logger.info reads the unbound current_size.
FileFound ==
    /\ pc = "waiting"
    /\ exists
    /\ previous_size' = InitialPreviousSize
    /\ equal_readings' = 0
    /\ IF KeepPolling(0, max_equal_readings)
         THEN /\ pc' = "polling"
              /\ error' = error
         ELSE /\ pc' = "raised"
              /\ error' = "UnboundLocalError"
    /\ UNCHANGED <<max_equal_readings, check_interval, current_size, result,
                   exists, fsize, hist, clock>>
    /\ UNCHANGED webvars

\* One pass of the polling loop: getsize, compare, store, sleep when the
\* threshold is not reached, else fall out of the loop and return.
Poll ==
    /\ pc = "polling"
    /\ Len(hist) < MaxReads
    /\ IF ~exists
         THEN /\ pc' = "raised"
              /\ error' = "OSError"
              /\ UNCHANGED <<previous_size, equal_readings, current_size,
                             result, hist, clock>>
         ELSE LET cur == fsize
                  eq == NextEqualReadings(cur, previous_size, equal_readings)
              IN /\ current_size' = <<cur>>
                 /\ equal_readings' = eq
                 /\ previous_size' = cur
                 /\ hist' = Append(hist, cur)
                 /\ error' = error
                 /\ IF KeepPolling(eq, max_equal_readings)
                      THEN /\ clock < MaxClock
                           /\ clock' = clock + check_interval
                           /\ pc' = "polling"
                           /\ result' = result
                      ELSE /\ clock' = clock
                           /\ pc' = "done"
                           /\ result' = <<cur>>
    /\ UNCHANGED <<max_equal_readings, check_interval, exists, fsize>>
    /\ UNCHANGED webvars

Running == pc \in {"waiting", "polling"}

\* The filesystem, between two reads of the call.
FileAppears ==
    /\ Running
    /\ ~exists
    /\ exists' = TRUE
    /\ \E s \in Sizes : fsize' = s
    /\ UNCHANGED <<pc, max_equal_readings, check_interval, previous_size,
                   equal_readings, current_size, result, error, hist, clock>>
    /\ UNCHANGED webvars

FileResized ==
    /\ Running
    /\ exists
    /\ \E s \in Sizes \ {fsize} : fsize' = s
    /\ UNCHANGED <<pc, max_equal_readings, check_interval, previous_size,
                   equal_readings, current_size, result, error, exists, hist,
                   clock>>
    /\ UNCHANGED webvars

FileRemoved ==
    /\ Running
    /\ exists
    /\ exists' = FALSE
    /\ UNCHANGED <<pc, max_equal_readings, check_interval, previous_size,
                   equal_readings, current_size, result, error, fsize, hist,
                   clock>>
    /\ UNCHANGED webvars

NextDL ==
    \/ WaitForFile
    \/ FileFound
    \/ Poll
    \/ FileAppears
    \/ FileResized
    \/ FileRemoved

SpecDL == InitDL /\ [][NextDL]_vars

\* ------------------------------------------ the session and the wait family

\* timeout: int = 12, the default of every function of the family
DefaultTimeout == 12

Timeouts == 1..MaxTimeout

\* (mutation of get_driver: the accessor is not memoized)
get_driver_Uncached(id, n) == [id |-> n + 1, constructed |-> n + 1]

\* @cache def get_driver(): the first call constructs Chrome and stores it,
\* every later call returns the instance stored.
get_driver(id, n) ==
    IF id = 0
      THEN [id |-> n + 1, constructed |-> n + 1]
      ELSE [id |-> id, constructed |-> n]

\* The functions that are one until() on one expected condition.
PlainWaits == {"wait_alert", "wait_clickable", "wait_frame",
               "wait_invisibility", "wait_selectable", "wait_text_attribute",
               "wait_partial_url", "wait_visibility", "wait_all_visible",
               "wait_new_window"}

\* The functions built on them.
BuiltOnWaits == {"find", "find_all", "click", "send", "select_by_value",
                 "select_by_visible_text", "is_selected", "is_not_selected",
                 "is_displayed"}

WaitFamily == PlainWaits \cup BuiltOnWaits

\* The expected condition each stage of a function waits for.
Kind(op, stage) ==
    CASE op = "wait_alert" -> "alert"
      [] op \in {"wait_clickable", "click", "send", "select_by_value",
                 "select_by_visible_text"} -> "clickable"
      [] op = "wait_frame" -> "frame"
      [] op = "wait_invisibility" -> "invisible"
      [] op = "wait_selectable" -> "selected"
      [] op = "wait_text_attribute" -> "attr"
      [] op = "wait_partial_url" -> "url"
      [] op \in {"wait_visibility", "find"} -> "visible"
      [] op \in {"wait_all_visible", "find_all", "is_displayed"} -> "all_visible"
      [] op = "wait_new_window" -> "new_window"
      [] op = "is_selected" -> IF stage = 1 THEN "visible" ELSE "state_selected"
      [] op = "is_not_selected" ->
            IF stage = 1 THEN "visible" ELSE "state_unselected"

\* Number of until() calls a function makes, one after the other.
WaitStages(op) ==
    IF op \in {"is_selected", "is_not_selected", "is_displayed"} THEN 2 ELSE 1

\* The timeout of each of them: is_not_selected calls find(xpath) without
\* passing its timeout on.
StageTimeout(op, stage, timeout) ==
    IF op = "is_not_selected" /\ stage = 1 THEN DefaultTimeout ELSE timeout

\* What the expected condition evaluates to on the document as it is now.
Holds(kind, c) ==
    CASE kind = "alert" -> page["alert"]
      [] kind = "clickable" -> page["visible"]
      [] kind = "frame" -> c.frame \in frames
      [] kind = "invisible" -> ~page["visible"]
      [] kind = "selected" -> page["selected"]
      [] kind = "attr" -> page["attr"]
      [] kind = "url" -> page["url"]
      [] kind = "visible" -> page["visible"]
      [] kind = "all_visible" -> page["visible"]
      [] kind = "new_window" -> windows > c.handles
      [] kind = "state_selected" -> page["selected"]
      [] kind = "state_unselected" -> ~page["selected"]

\* (mutation of ContextAfter: every located element is switched to)
ContextAfter_Always(kind, frame, ctx) ==
    IF kind \in {"frame", "visible", "clickable"} THEN "f1" ELSE ctx

\* frame_to_be_available_and_switch_to_it switches when it succeeds; no other
\* expected condition touches the context.
ContextAfter(kind, frame, ctx) == IF kind = "frame" THEN frame ELSE ctx

\* (mutation of OnTimeout: the timeout is caught and a falsy value returned)
OnTimeout_Swallowed(op) ==
    [kind |-> "returned", error |-> "none",
     value |-> IF op \in {"is_selected", "is_not_selected", "is_displayed"}
                 THEN "False" ELSE "None",
     acted |-> "none", timedOut |-> TRUE]

\* until() raised TimeoutException: no function of the family handles it, so
\* it leaves the function at once.
OnTimeout(op) ==
    [kind |-> "raised", error |-> "TimeoutException", value |-> "none",
     acted |-> "none", timedOut |-> TRUE]

\* What a function does with the value of its last until().
OnSuccess(op) ==
    [kind |-> "returned", error |-> "none",
     value |-> CASE op \in {"wait_clickable", "wait_visibility", "find"} -> "element"
                 [] op \in {"wait_all_visible", "find_all"} -> "list"
                 [] op \in {"wait_selectable", "is_selected", "is_not_selected"} -> "True"
                 [] OTHER -> "None",
     acted |-> CASE op = "click" -> "click"
                 [] op = "send" -> "send_keys"
                 [] op = "select_by_value" -> "select_by_value"
                 [] op = "select_by_visible_text" -> "select_by_visible_text"
                 [] OTHER -> "none",
     timedOut |-> FALSE]

\* A command sent to a session that was quit fails at once.
OnDeadSession ==
    [kind |-> "raised", error |-> "WebDriverException", value |-> "none",
     acted |-> "none", timedOut |-> FALSE]

\* The call is over; last keeps the stage it ended in.
Finished(c) ==
    [c EXCEPT !.stage = 0, !.elapsed = 0, !.handles = 0, !.timeout = 0,
              !.last = c.stage]

Idle == call.stage = 0

\* Entry of a function of the family: get_wait(timeout) -> get_driver(), then
\* the first until() is about to evaluate its condition.
StartCall(op, timeout, frame) ==
    /\ Idle
    /\ LET s == get_driver(driverId, constructed)
           c == [op |-> op, timeout |-> timeout, frame |-> frame, stage |-> 1,
                 elapsed |-> 0,
                 handles |-> IF op = "wait_new_window" THEN windows ELSE 0,
                 context0 |-> context, last |-> 0]
       IN /\ s.constructed <= MaxSessions
          /\ driverId' = s.id
          /\ constructed' = s.constructed
          /\ IF quitted
               THEN /\ call' = Finished(c)
                    /\ outcome' = OnDeadSession
               ELSE /\ call' = c
                    /\ outcome' = NoOutcome
    /\ UNCHANGED <<quitted, context, page, frames, windows, dlvars>>

wait_alert(timeout) == StartCall("wait_alert", timeout, "none")

wait_clickable(timeout) == StartCall("wait_clickable", timeout, "none")

wait_frame(frame, timeout) == StartCall("wait_frame", timeout, frame)

wait_invisibility(timeout) == StartCall("wait_invisibility", timeout, "none")

wait_selectable(timeout) == StartCall("wait_selectable", timeout, "none")

wait_text_attribute(timeout) == StartCall("wait_text_attribute", timeout, "none")

wait_partial_url(timeout) == StartCall("wait_partial_url", timeout, "none")

wait_visibility(timeout) == StartCall("wait_visibility", timeout, "none")

wait_all_visible(timeout) == StartCall("wait_all_visible", timeout, "none")

wait_new_window(timeout) == StartCall("wait_new_window", timeout, "none")

find(timeout) == StartCall("find", timeout, "none")

find_all(timeout) == StartCall("find_all", timeout, "none")

click(timeout) == StartCall("click", timeout, "none")

send(timeout) == StartCall("send", timeout, "none")

select_by_value(timeout) == StartCall("select_by_value", timeout, "none")

select_by_visible_text(timeout) ==
    StartCall("select_by_visible_text", timeout, "none")

is_selected(timeout) == StartCall("is_selected", timeout, "none")

is_not_selected(timeout) == StartCall("is_not_selected", timeout, "none")

is_displayed(timeout) == StartCall("is_displayed", timeout, "none")

\* One pass of until(): evaluate the condition; when it holds go on to what
\* follows the wait, else sleep the poll interval of 1 and give up once the
\* timeout has passed.
PollWait ==
    /\ call.stage \in 1..WaitStages(call.op)
    /\ LET k == Kind(call.op, call.stage)
           t == StageTimeout(call.op, call.stage, call.timeout)
       IN IF Holds(k, call)
            THEN /\ context' = ContextAfter(k, call.frame, context)
                 /\ IF call.stage < WaitStages(call.op) \/ call.op = "is_displayed"
                      THEN /\ call' = [call EXCEPT !.stage = @ + 1, !.elapsed = 0]
                           /\ outcome' = outcome
                      ELSE /\ call' = Finished(call)
                           /\ outcome' = OnSuccess(call.op)
            ELSE /\ context' = context
                 /\ IF call.elapsed + 1 >= t
                      THEN /\ call' = Finished(call)
                           /\ outcome' = OnTimeout(call.op)
                      ELSE /\ call' = [call EXCEPT !.elapsed = @ + 1]
                           /\ outcome' = outcome
    /\ UNCHANGED <<driverId, constructed, quitted, page, frames, windows,
                   dlvars>>

\* is_displayed, after its two find_all: [-1].is_displayed()
ReadDisplayed ==
    /\ call.op = "is_displayed"
    /\ call.stage = 3
    /\ call' = Finished(call)
    /\ outcome' = [OnSuccess("is_displayed") EXCEPT
                      !.value = IF page["visible"] THEN "True" ELSE "False"]
    /\ UNCHANGED <<driverId, constructed, quitted, context, page, frames,
                   windows, dlvars>>

\* A function that is one command to get_driver(): the session it needs is
\* made on the way, the command fails on a session that was quit.
DriverCommand(op, ctx) ==
    /\ Idle
    /\ LET s == get_driver(driverId, constructed)
       IN /\ s.constructed <= MaxSessions
          /\ driverId' = s.id
          /\ constructed' = s.constructed
    /\ call' = [NoCall EXCEPT !.op = op, !.context0 = context]
    /\ outcome' = IF quitted THEN OnDeadSession
                  ELSE [NoOutcome EXCEPT !.kind = "returned", !.value = "None"]
    /\ context' = IF quitted THEN context ELSE ctx
    /\ UNCHANGED <<quitted, page, frames, windows, dlvars>>

\* get_driver().get(url): navigation leaves the top-level context active
get == DriverCommand("get", "top")

\* get_driver().switch_to.default_content()
exit_iframe == DriverCommand("exit_iframe", "top")

\* get_driver().execute_script(script)
run_script == DriverCommand("run_script", context)

\* get_driver().quit(): quitting twice is harmless
quit ==
    /\ Idle
    /\ LET s == get_driver(driverId, constructed)
       IN /\ s.constructed <= MaxSessions
          /\ driverId' = s.id
          /\ constructed' = s.constructed
    /\ quitted' = TRUE
    /\ call' = [NoCall EXCEPT !.op = "quit", !.context0 = context]
    /\ outcome' = [NoOutcome EXCEPT !.kind = "returned", !.value = "None"]
    /\ UNCHANGED <<context, page, frames, windows, dlvars>>

\* The document, between two commands.
PageChanges ==
    /\ \E c \in Conditions : page' = [page EXCEPT ![c] = ~@]
    /\ UNCHANGED <<driverId, constructed, quitted, context, frames, windows,
                   call, outcome, dlvars>>

FramesChange ==
    /\ \E f \in Frames :
          frames' = IF f \in frames THEN frames \ {f} ELSE frames \cup {f}
    /\ UNCHANGED <<driverId, constructed, quitted, context, page, windows,
                   call, outcome, dlvars>>

WindowOpens ==
    /\ windows < MaxWindows
    /\ windows' = windows + 1
    /\ UNCHANGED <<driverId, constructed, quitted, context, page, frames,
                   call, outcome, dlvars>>

WindowCloses ==
    /\ windows > 1
    /\ windows' = windows - 1
    /\ UNCHANGED <<driverId, constructed, quitted, context, page, frames,
                   call, outcome, dlvars>>

InitWeb ==
    /\ WebStart
    /\ pc = "idle"
    /\ max_equal_readings = 0
    /\ check_interval = 0
    /\ previous_size = 0
    /\ equal_readings = 0
    /\ current_size = <<>>
    /\ result = <<>>
    /\ error = "none"
    /\ exists = FALSE
    /\ fsize = 0
    /\ hist = <<>>
    /\ clock = 0

NextWeb ==
    \/ \E t \in Timeouts : wait_alert(t)
    \/ \E t \in Timeouts : wait_clickable(t)
    \/ \E t \in Timeouts, f \in Frames : wait_frame(f, t)
    \/ \E t \in Timeouts : wait_invisibility(t)
    \/ \E t \in Timeouts : wait_selectable(t)
    \/ \E t \in Timeouts : wait_text_attribute(t)
    \/ \E t \in Timeouts : wait_partial_url(t)
    \/ \E t \in Timeouts : wait_visibility(t)
    \/ \E t \in Timeouts : wait_all_visible(t)
    \/ \E t \in Timeouts : wait_new_window(t)
    \/ \E t \in Timeouts : find(t)
    \/ \E t \in Timeouts : find_all(t)
    \/ \E t \in Timeouts : click(t)
    \/ \E t \in Timeouts : send(t)
    \/ \E t \in Timeouts : select_by_value(t)
    \/ \E t \in Timeouts : select_by_visible_text(t)
    \/ \E t \in Timeouts : is_selected(t)
    \/ \E t \in Timeouts : is_not_selected(t)
    \/ \E t \in Timeouts : is_displayed(t)
    \/ PollWait
    \/ ReadDisplayed
    \/ get
    \/ exit_iframe
    \/ run_script
    \/ quit
    \/ PageChanges
    \/ FramesChange
    \/ WindowOpens
    \/ WindowCloses

SpecWeb == InitWeb /\ [][NextWeb]_vars

\* ------------------------------------------------ properties of wait_download

Last(s) == s[Len(s)]

\* 1-based position of the first reading equal to c
FirstPos(s, c) == CHOOSE i \in 1..Len(s) : s[i] = c /\ \A j \in 1..(i - 1) : s[j] # c

\* 1-based position at which the final run of equal readings begins
FinalRunStart(s) ==
    CHOOSE i \in 1..Len(s) :
        /\ \A j \in i..Len(s) : s[j] = Last(s)
        /\ (i > 1 => s[i - 1] # Last(s))

\* the last n readings exist and are all the same
LastEqual(s, n) ==
    /\ Len(s) >= n
    /\ \A j \in (Len(s) - n + 1)..Len(s) : s[j] = Last(s)

NoConsecutiveEqual(s) == \A j \in 1..(Len(s) - 1) : s[j] # s[j + 1]

Returned == pc = "done"

\* C1 as stated: for N >= 1 a call that returns returns the value c of its
\* last N readings, having taken (position of the FIRST reading equal to c) + N
\* readings.
C1_Original ==
    (Returned /\ max_equal_readings >= 1) =>
        /\ LastEqual(hist, max_equal_readings)
        /\ result = <<Last(hist)>>
        /\ Len(hist) = FirstPos(hist, Last(hist)) + max_equal_readings

\* C1 amended: for N >= 1 a call that returns returns the value c of its last
\* N readings, having taken (position of the first reading of the FINAL RUN of
\* readings equal to c) + N readings.
C1_FinalRun ==
    (Returned /\ max_equal_readings >= 1) =>
        /\ LastEqual(hist, max_equal_readings)
        /\ result = <<Last(hist)>>
        /\ Len(hist) = FinalRunStart(hist) + max_equal_readings

\* the spec's example [100,150,150,150,150] with threshold 3, sizes scaled
C1_Witness ==
    /\ Returned
    /\ max_equal_readings = 3
    /\ hist = <<1, 2, 2, 2, 2>>
    /\ result = <<2>>

\* C2 as stated: for N >= 1, once the readings taken end in a run of N
\* readings with the same size the call has stopped and returned.
C2_StopsAfterNReadings ==
    (max_equal_readings >= 1 /\ LastEqual(hist, max_equal_readings)) => Returned

\* C3: for N >= 1, while no two consecutive readings were equal the
\* stable-reading counter is 0 and the call has not returned.
C3_NeverReturnsUnstable ==
    (max_equal_readings >= 1 /\ NoConsecutiveEqual(hist)) =>
        /\ equal_readings = 0
        /\ ~Returned
        /\ result = <<>>

C3_Witness ==
    /\ max_equal_readings = 1
    /\ pc = "polling"
    /\ Len(hist) >= 5
    /\ NoConsecutiveEqual(hist)

\* C4 as stated: whatever the threshold and the filesystem do, the call never
\* ends by raising.
C4_NeverRaises == pc # "raised" /\ error = "none"

C10_Step ==
    /\ (pc = "waiting" /\ ~exists =>
            /\ pc' = "waiting"
            /\ hist' = hist
            /\ result' = result)
    /\ (pc = "waiting" /\ clock' # clock => clock' = clock + 1 /\ ~exists)
    /\ (pc = "waiting" /\ pc' # "waiting" => exists /\ hist' = <<>>)
    /\ (pc # "waiting" => pc' # "waiting")

C10_WaitingPhase == [][C10_Step]_vars

\* the file appeared after two retries of a call whose check_interval is 2
C10_Witness ==
    /\ pc = "polling"
    /\ check_interval = 2
    /\ clock = 2
    /\ hist = <<>>

\* ------------------------------- properties of the session and the wait family

Ended == call.stage = 0 /\ call.op # "none"

C6_State ==
    /\ constructed <= 1
    /\ (driverId = 0 <=> constructed = 0)
    /\ (driverId = 0 <=> call.op = "none")
    /\ (quitted => driverId # 0)

C6_Step ==
    /\ (driverId # 0 => driverId' = driverId)
    /\ (quitted => quitted')
    /\ (~quitted /\ quitted' => call'.op = "quit")
    /\ (call' # call => driverId' # 0)

C7_ReturnsBoolean ==
    (Ended /\ call.op \in {"is_selected", "is_not_selected"} /\ call.last = 2) =>
        /\ outcome.kind = "returned"
        /\ outcome.value \in {"True", "False"}

\* C8: a wait_frame that succeeds leaves the awaited frame active, one that
\* times out (or is still waiting) leaves the context as it was, and no other
\* function of the wait family changes the context.
C8_FrameContext ==
    (call.op \in WaitFamily) =>
        IF call.op = "wait_frame" /\ Ended /\ outcome.kind = "returned"
          THEN context = call.frame
          ELSE context = call.context0

\* a wait_frame that succeeded from another context
C8_Witness ==
    /\ Ended
    /\ call.op = "wait_frame"
    /\ outcome.kind = "returned"
    /\ call.frame = "f2"
    /\ call.context0 = "f1"
    /\ context = "f2"

\* a wait_frame that timed out while a frame context was active
C8_WitnessTimeout ==
    /\ Ended
    /\ call.op = "wait_frame"
    /\ outcome.timedOut
    /\ call.context0 = "f1"
    /\ context = "f1"

====
